---- MODULE Spec2Model ----
(***************************************************************************)
(* Model of the real-time webcam pipeline of src/realtimeDemo.py           *)
(* (class WebcamProcessor): the capture thread (_capture_frames), the clip *)
(* assembler thread (_process_clips, _create_clip), the completion         *)
(* callback (_processing_done, _load_output_video) and the display loop    *)
(* on the main thread (_display_loop).                                     *)
(*                                                                         *)
(* Threads are interleaved at the statements that read or write shared     *)
(* attributes.  Frames are numbered in capture order (1, 2, 3, ...).       *)
(* Temp directories created by tempfile.mkdtemp are numbered 1, 2, ...     *)
(* VideoProcessor.process_video is not part of the sources; its            *)
(* asynchronous completion is the action ServiceFinish.                    *)
(***************************************************************************)
EXTENDS Integers, Sequences, FiniteSets, TLC

VARIABLES
    target_fps,        \* self.target_fps
    clip_duration,     \* self.clip_duration
    frames_buffer,     \* self.frames_buffer: sequence of frame numbers
    live_overlay,      \* self.live_overlay: a frame number, 0 for None
    processing_queue,  \* self.processing_queue: sequence of temp dirs put
    current_output,    \* self.current_output: None or a sequence of frames
    running,           \* self.running
    current_temp_dir,  \* self.current_temp_dir: 0 for None
    cap_released,      \* self.cap.release() has been called
    nframes,           \* frames the camera has delivered so far
    pc_cap,            \* position of the capture thread
    ret,               \* capture thread local: ret of the last cap.read()
    pc_asm,            \* position of the assembler thread
    clip_frames,       \* assembler local: clip_frames of _create_clip
    temp_dir,          \* assembler local: temp_dir, 0 when unset
    next_dir,          \* number of the next directory mkdtemp returns
    disk,              \* set of temp dirs that exist on disk
    input_file,        \* temp dir -> frames written to input.mp4
    out_file,          \* temp dir -> frames of output/input_vis.mp4, NoFile
    job,               \* temp dir -> state of the Clip Job owning it
    cb_success,        \* temp dir -> success argument of its callback
    frames,            \* temp dir -> frames list of _load_output_video
    pc_disp,           \* position of the display loop (main thread)
    now,               \* display local: time.time() in ticks, -1 unset
    current_frame_idx, \* display local: current_frame_idx, -1 unset
    processed_frame,   \* display local: processed_frame, 0 unset
    live_frame         \* display local: frame shown on the live half

cfgVars  == <<target_fps, clip_duration>>
capVars  == <<pc_cap, ret, nframes>>
asmVars  == <<pc_asm, clip_frames, temp_dir>>
fsVars   == <<next_dir, disk, input_file, out_file>>
jobVars  == <<job, cb_success, frames>>
dispVars == <<pc_disp, now, current_frame_idx, processed_frame, live_frame>>
vars == <<target_fps, clip_duration, frames_buffer, live_overlay,
          processing_queue, current_output, running, current_temp_dir,
          cap_released, nframes, pc_cap, ret, pc_asm, clip_frames, temp_dir,
          next_dir, disk, input_file, out_file, job, cb_success, frames,
          pc_disp, now, current_frame_idx, processed_frame, live_frame>>

(***************************************************************************)
(* Bounds of the model.                                                    *)
(***************************************************************************)
\* The camera delivers at most MaxFrames frames, and at most ExtraFrames
\* frames more than the buffer's capacity.
MaxFrames == 46
ExtraFrames == 2
\* mkdtemp hands out at most MaxJobs directories.
MaxJobs == 2
\* A result artifact of the pipeline runs holds at most MaxResultLen frames.
MaxResultLen == 2
\* A result sequence of the cursor runs holds at most CursorMaxLen frames.
CursorMaxLen == 10
\* Clock ticks per half second; the clock of the cursor runs reads at most
\* MaxSeconds seconds.
HalfSecond == 15
MaxSeconds == 2

TimeRes == 2 * HalfSecond
MaxTick == MaxSeconds * TimeRes

\* (fps, clip_duration) pairs the constructor is called with; <<30, 1>> is
\* the configuration of __main__.
Configs == {<<2, 1>>, <<1, 2>>, <<2, 0>>, <<30, 1>>}

\* The configurations whose clip is shorter than a second of the default rate.
ShortConfigs == {c \in Configs : c[1] * c[2] < 30}

\* Queue(maxsize=2)
QueueMaxsize == 2

None == << -1 >>
NoFile == << -2 >>
\* The frames list of a callback that is not inside _load_output_video.
Unset == << -3 >>
Dirs == 1..MaxJobs

(***************************************************************************)
(* Pure helpers.                                                           *)
(***************************************************************************)
Min(a, b) == IF a <= b THEN a ELSE b

\* target_fps * (clip_duration + 1), the bound of line 54
BufferCapacity == target_fps * (clip_duration + 1)

\* target_fps * clip_duration, the clip length of lines 59 and 82
ClipLen == target_fps * clip_duration

\* Python's s[-n:] on a list: the last n elements, all of s when n >= len(s),
\* and all of s when n = 0 (s[-0:] is s[0:]).
LastN(s, n) ==
    IF n = 0 \/ n >= Len(s) THEN s
    ELSE SubSeq(s, Len(s) - n + 1, Len(s))

\* Python's s.pop(0) on a non-empty list: what is left of s.
PopFront(s) == SubSeq(s, 2, Len(s))

\* The frames the inference service renders into input_vis.mp4 of directory d.
Artifact(d, n) == [i \in 1..n |-> 100 * d + i]

\* _load_output_video: read frames one by one until read() fails.
RECURSIVE ReadAll(_, _)
ReadAll(file, read) ==
    IF Len(read) >= Len(file) THEN read
    ELSE ReadAll(file, Append(read, file[Len(read) + 1]))

LoadOutputVideo(file) == ReadAll(file, <<>>)

\* FrameClock with round() in place of int().
FrameClock_Round(t) == (2 * t * target_fps + TimeRes) \div (2 * TimeRes)

\* int(time.time() * self.target_fps), with time.time() = t / TimeRes seconds
FrameClock(t) == (t * target_fps) \div TimeRes

\* Python's s[i] on a list s: i counts from the end when negative.
PyIndexOk(s, i) == -Len(s) <= i /\ i < Len(s)
PyIndex(s, i) == IF i >= 0 THEN s[i + 1] ELSE s[Len(s) + i + 1]

\* Frames the camera can still deliver within the model's bound.
CameraFrames == Min(BufferCapacity + ExtraFrames, MaxFrames)

\* The process lives until the main thread leaves start(); the capture and
\* assembler threads are daemon threads and die with it.
ProcessAlive == pc_disp \notin {"done", "crashed"}

(***************************************************************************)
(* Initial state: after WebcamProcessor.__init__ and the first line of     *)
(* start(), with the three threads at the head of their loops.             *)
(***************************************************************************)
InitWith(configs) ==
    /\ \E c \in configs : target_fps = c[1] /\ clip_duration = c[2]
    /\ frames_buffer = <<>>
    /\ live_overlay = 0
    /\ processing_queue = <<>>
    /\ current_output = None
    /\ running = TRUE
    /\ current_temp_dir = 0
    /\ cap_released = FALSE
    /\ nframes = 0
    /\ pc_cap = "loop"
    /\ ret = FALSE
    /\ pc_asm = "loop"
    /\ clip_frames = <<>>
    /\ temp_dir = 0
    /\ next_dir = 1
    /\ disk = {}
    /\ input_file = [d \in Dirs |-> NoFile]
    /\ out_file = [d \in Dirs |-> NoFile]
    /\ job = [d \in Dirs |-> "NONE"]
    /\ cb_success = [d \in Dirs |-> FALSE]
    /\ frames = [d \in Dirs |-> Unset]
    /\ pc_disp = "loop"
    /\ now = -1
    /\ current_frame_idx = -1
    /\ processed_frame = 0
    /\ live_frame = 0

Init == InitWith(Configs)

(***************************************************************************)
(* Capture thread: _capture_frames.                                        *)
(***************************************************************************)
\* CaptureLoop with `while True` in place of `while self.running`.
CaptureLoop_Forever ==
    /\ ProcessAlive
    /\ pc_cap = "loop"
    /\ pc_cap' = "read"
    /\ UNCHANGED <<cfgVars, frames_buffer, live_overlay, processing_queue,
                   current_output, running, current_temp_dir, cap_released,
                   nframes, ret, asmVars, fsVars, jobVars, dispVars>>

\* line 44: while self.running
CaptureLoop ==
    /\ ProcessAlive
    /\ pc_cap = "loop"
    /\ pc_cap' = IF running THEN "read" ELSE "exit"
    /\ UNCHANGED <<cfgVars, frames_buffer, live_overlay, processing_queue,
                   current_output, running, current_temp_dir, cap_released,
                   nframes, ret, asmVars, fsVars, jobVars, dispVars>>

\* lines 45-47: ret, frame = self.cap.read(); if not ret: continue
\* A read of a released camera fails.
CaptureRead ==
    /\ ProcessAlive
    /\ pc_cap = "read"
    /\ \E r \in BOOLEAN :
          /\ r => (~cap_released /\ nframes < CameraFrames)
          /\ ret' = r
          /\ nframes' = IF r THEN nframes + 1 ELSE nframes
          /\ pc_cap' = IF r THEN "append" ELSE "loop"
    /\ UNCHANGED <<cfgVars, frames_buffer, live_overlay, processing_queue,
                   current_output, running, current_temp_dir, cap_released,
                   asmVars, fsVars, jobVars, dispVars>>

\* lines 50-51: self.frames_buffer.append(frame); self.live_overlay = ...
CaptureAppend ==
    /\ ProcessAlive
    /\ pc_cap = "append"
    /\ frames_buffer' = Append(frames_buffer, nframes)
    /\ live_overlay' = nframes
    /\ pc_cap' = "evict"
    /\ UNCHANGED <<cfgVars, processing_queue, current_output, running,
                   current_temp_dir, cap_released, nframes, ret, asmVars,
                   fsVars, jobVars, dispVars>>

\* CaptureEvict with pop() in place of pop(0): the newest frame is dropped.
CaptureEvict_PopLast ==
    /\ ProcessAlive
    /\ pc_cap = "evict"
    /\ frames_buffer' = IF Len(frames_buffer) > BufferCapacity
                         THEN SubSeq(frames_buffer, 1, Len(frames_buffer) - 1)
                         ELSE frames_buffer
    /\ pc_cap' = "loop"
    /\ UNCHANGED <<cfgVars, live_overlay, processing_queue, current_output,
                   running, current_temp_dir, cap_released, nframes, ret,
                   asmVars, fsVars, jobVars, dispVars>>

\* CaptureEvict that empties the buffer when it is over capacity.
CaptureEvict_Clear ==
    /\ ProcessAlive
    /\ pc_cap = "evict"
    /\ frames_buffer' = IF Len(frames_buffer) > BufferCapacity
                         THEN <<>>
                         ELSE frames_buffer
    /\ pc_cap' = "loop"
    /\ UNCHANGED <<cfgVars, live_overlay, processing_queue, current_output,
                   running, current_temp_dir, cap_released, nframes, ret,
                   asmVars, fsVars, jobVars, dispVars>>

\* lines 54-55: if len(self.frames_buffer) > ...: self.frames_buffer.pop(0)
CaptureEvict ==
    /\ ProcessAlive
    /\ pc_cap = "evict"
    /\ frames_buffer' = IF Len(frames_buffer) > BufferCapacity
                         THEN PopFront(frames_buffer)
                         ELSE frames_buffer
    /\ pc_cap' = "loop"
    /\ UNCHANGED <<cfgVars, live_overlay, processing_queue, current_output,
                   running, current_temp_dir, cap_released, nframes, ret,
                   asmVars, fsVars, jobVars, dispVars>>

(***************************************************************************)
(* Assembler thread: _process_clips and _create_clip.                      *)
(***************************************************************************)
\* line 81: while self.running
AsmLoop ==
    /\ ProcessAlive
    /\ pc_asm = "loop"
    /\ pc_asm' = IF running THEN "guard" ELSE "exit"
    /\ UNCHANGED <<cfgVars, frames_buffer, live_overlay, processing_queue,
                   current_output, running, current_temp_dir, cap_released,
                   capVars, clip_frames, temp_dir, fsVars, jobVars, dispVars>>

\* AsmGuard without the slot check of line 82.
AsmGuard_NoSlotCheck ==
    /\ ProcessAlive
    /\ pc_asm = "guard"
    /\ pc_asm' = IF Len(frames_buffer) >= ClipLen THEN "slice" ELSE "loop"
    /\ UNCHANGED <<cfgVars, frames_buffer, live_overlay, processing_queue,
                   current_output, running, current_temp_dir, cap_released,
                   capVars, clip_frames, temp_dir, fsVars, jobVars, dispVars>>

\* AsmGuard without the length check of line 82.
AsmGuard_NoLengthCheck ==
    /\ ProcessAlive
    /\ pc_asm = "guard"
    /\ pc_asm' = IF processing_queue = <<>> THEN "slice" ELSE "loop"
    /\ UNCHANGED <<cfgVars, frames_buffer, live_overlay, processing_queue,
                   current_output, running, current_temp_dir, cap_released,
                   capVars, clip_frames, temp_dir, fsVars, jobVars, dispVars>>

\* line 82: if self.processing_queue.empty() and len(self.frames_buffer) >= ...
\* otherwise line 100: time.sleep(0.1) and back to the loop head
AsmGuard ==
    /\ ProcessAlive
    /\ pc_asm = "guard"
    /\ pc_asm' = IF processing_queue = <<>> /\ Len(frames_buffer) >= ClipLen
                 THEN "slice" ELSE "loop"
    /\ UNCHANGED <<cfgVars, frames_buffer, live_overlay, processing_queue,
                   current_output, running, current_temp_dir, cap_released,
                   capVars, clip_frames, temp_dir, fsVars, jobVars, dispVars>>

\* AsmSlice with the slice [:n] in place of [-n:]: the oldest frames.
AsmSlice_Oldest ==
    /\ ProcessAlive
    /\ pc_asm = "slice"
    /\ clip_frames' = SubSeq(frames_buffer, 1, Min(ClipLen, Len(frames_buffer)))
    /\ pc_asm' = "mkdtemp"
    /\ UNCHANGED <<cfgVars, frames_buffer, live_overlay, processing_queue,
                   current_output, running, current_temp_dir, cap_released,
                   capVars, temp_dir, fsVars, jobVars, dispVars>>

\* AsmSlice that takes the clip out of the buffer.
AsmSlice_Destructive ==
    /\ ProcessAlive
    /\ pc_asm = "slice"
    /\ clip_frames' = LastN(frames_buffer, ClipLen)
    /\ frames_buffer' = SubSeq(frames_buffer, 1,
                               Len(frames_buffer) - Len(clip_frames'))
    /\ pc_asm' = "mkdtemp"
    /\ UNCHANGED <<cfgVars, live_overlay, processing_queue, current_output,
                   running, current_temp_dir, cap_released, capVars, temp_dir,
                   fsVars, jobVars, dispVars>>

\* line 59: clip_frames = self.frames_buffer[-self.target_fps * self.clip_duration:]
AsmSlice ==
    /\ ProcessAlive
    /\ pc_asm = "slice"
    /\ clip_frames' = LastN(frames_buffer, ClipLen)
    /\ pc_asm' = "mkdtemp"
    /\ UNCHANGED <<cfgVars, frames_buffer, live_overlay, processing_queue,
                   current_output, running, current_temp_dir, cap_released,
                   capVars, temp_dir, fsVars, jobVars, dispVars>>

\* line 62: temp_dir = tempfile.mkdtemp(prefix="wham_clip_")
AsmMkdtemp ==
    /\ ProcessAlive
    /\ pc_asm = "mkdtemp"
    /\ next_dir <= MaxJobs
    /\ temp_dir' = next_dir
    /\ next_dir' = next_dir + 1
    /\ disk' = disk \cup {next_dir}
    /\ job' = [job EXCEPT ![next_dir] = "CREATED"]
    /\ pc_asm' = "write"
    /\ UNCHANGED <<cfgVars, frames_buffer, live_overlay, processing_queue,
                   current_output, running, current_temp_dir, cap_released,
                   capVars, clip_frames, input_file, out_file, cb_success,
                   frames,
                   dispVars>>

\* lines 63-78: write clip_frames to input.mp4; an I/O error raises out of
\* _process_clips, which has no handler, and ends the assembler thread.
AsmWrite ==
    /\ ProcessAlive
    /\ pc_asm = "write"
    /\ \E io_error \in BOOLEAN :
          IF io_error
          THEN /\ pc_asm' = "crashed"
               /\ UNCHANGED input_file
          ELSE /\ pc_asm' = "makedirs"
               /\ input_file' = [input_file EXCEPT ![temp_dir] = clip_frames]
    /\ UNCHANGED <<cfgVars, frames_buffer, live_overlay, processing_queue,
                   current_output, running, current_temp_dir, cap_released,
                   capVars, clip_frames, temp_dir, next_dir, disk, out_file,
                   jobVars, dispVars>>

\* lines 84-85: os.makedirs(output_dir, exist_ok=True); an OSError ends the
\* assembler thread as well.
AsmMakedirs ==
    /\ ProcessAlive
    /\ pc_asm = "makedirs"
    /\ \E io_error \in BOOLEAN :
          pc_asm' = IF io_error THEN "crashed" ELSE "put"
    /\ UNCHANGED <<cfgVars, frames_buffer, live_overlay, processing_queue,
                   current_output, running, current_temp_dir, cap_released,
                   capVars, clip_frames, temp_dir, fsVars, jobVars, dispVars>>

\* lines 87-92: self.processing_queue.put({...}); put blocks while the queue
\* is full.
AsmPut ==
    /\ ProcessAlive
    /\ pc_asm = "put"
    /\ Len(processing_queue) < QueueMaxsize
    /\ processing_queue' = Append(processing_queue, temp_dir)
    /\ pc_asm' = "submit"
    /\ UNCHANGED <<cfgVars, frames_buffer, live_overlay, current_output,
                   running, current_temp_dir, cap_released, capVars,
                   clip_frames, temp_dir, fsVars, jobVars, dispVars>>

\* lines 95-100: self.wham_processor.process_video(..., callback=...), then
\* time.sleep(0.1) and back to the loop head.
AsmSubmit ==
    /\ ProcessAlive
    /\ pc_asm = "submit"
    /\ job' = [job EXCEPT ![temp_dir] = "SUBMITTED"]
    /\ pc_asm' = "loop"
    /\ clip_frames' = <<>>
    /\ temp_dir' = 0
    /\ UNCHANGED <<cfgVars, frames_buffer, live_overlay, processing_queue,
                   current_output, running, current_temp_dir, cap_released,
                   capVars, fsVars, cb_success, frames, dispVars>>

(***************************************************************************)
(* Inference service and completion callback.                              *)
(***************************************************************************)
\* The service finishes the clip of directory d: it reports success or
\* failure, may have written output/input_vis.mp4, and invokes the callback
\* lambda success, out, err: self._processing_done(temp_dir, success).
ServiceFinish(d) ==
    /\ job[d] = "SUBMITTED"
    /\ \E success \in BOOLEAN :
       \E file \in {NoFile} \cup {Artifact(d, n) : n \in 0..MaxResultLen} :
          /\ cb_success' = [cb_success EXCEPT ![d] = success]
          /\ out_file' = [out_file EXCEPT ![d] = IF d \in disk THEN file
                                                ELSE NoFile]
    /\ job' = [job EXCEPT ![d] = "CALLBACK"]
    /\ UNCHANGED <<cfgVars, frames_buffer, live_overlay, processing_queue,
                   current_output, running, current_temp_dir, cap_released,
                   capVars, asmVars, next_dir, disk, input_file, frames,
                   dispVars>>

\* ProcessingDoneLoad that promotes the artifact whatever the success flag.
ProcessingDoneLoad_IgnoreSuccess(d) ==
    /\ job[d] = "CALLBACK"
    /\ IF d \in disk /\ out_file[d] # NoFile
       THEN /\ current_output' = LoadOutputVideo(out_file[d])
            /\ job' = [job EXCEPT ![d] = "COMPLETED_SUCCESS"]
       ELSE /\ UNCHANGED current_output
            /\ job' = [job EXCEPT ![d] = "COMPLETED_FAILURE"]
    /\ UNCHANGED <<cfgVars, frames_buffer, live_overlay, processing_queue,
                   running, current_temp_dir, cap_released, capVars, asmVars,
                   fsVars, cb_success, frames, dispVars>>

\* The artifact of job d is there for a callback that reports success.
ArtifactExists(d) == cb_success[d] /\ d \in disk /\ out_file[d] # NoFile

\* lines 103-105 and 110-111: if success: if os.path.exists(output_path):
\* enter _load_output_video: cap = cv2.VideoCapture(path); frames = []
ProcessingDoneOpen(d) ==
    /\ job[d] = "CALLBACK"
    /\ ArtifactExists(d)
    /\ frames[d] = Unset
    /\ frames' = [frames EXCEPT ![d] = <<>>]
    /\ UNCHANGED <<cfgVars, frames_buffer, live_overlay, processing_queue,
                   current_output, running, current_temp_dir, cap_released,
                   capVars, asmVars, fsVars, job, cb_success, dispVars>>

\* LoadOutputVideoRead that decodes into the held list itself:
\* self.current_output shows every frame as soon as it is read.
LoadOutputVideoRead_Publish(d) ==
    /\ job[d] = "CALLBACK"
    /\ frames[d] # Unset
    /\ Len(frames[d]) < Len(out_file[d])
    /\ frames' = [frames EXCEPT
                    ![d] = Append(frames[d], out_file[d][Len(frames[d]) + 1])]
    /\ current_output' = frames'[d]
    /\ UNCHANGED <<cfgVars, frames_buffer, live_overlay, processing_queue,
                   running, current_temp_dir, cap_released, capVars, asmVars,
                   fsVars, job, cb_success, dispVars>>

\* lines 112-116: ret, frame = cap.read(); frames.append(frame)
LoadOutputVideoRead(d) ==
    /\ job[d] = "CALLBACK"
    /\ frames[d] # Unset
    /\ Len(frames[d]) < Len(out_file[d])
    /\ frames' = [frames EXCEPT
                    ![d] = Append(frames[d], out_file[d][Len(frames[d]) + 1])]
    /\ UNCHANGED <<cfgVars, frames_buffer, live_overlay, processing_queue,
                   current_output, running, current_temp_dir, cap_released,
                   capVars, asmVars, fsVars, job, cb_success, dispVars>>

\* lines 103-106, leaving them: with success and an artifact, read() has
\* failed at the end of the file (lines 113-115), _load_output_video
\* returns frames (lines 117-118) and line 106 assigns them to
\* self.current_output; otherwise the ifs of lines 103 and 105 are skipped.
ProcessingDoneLoad(d) ==
    /\ job[d] = "CALLBACK"
    /\ IF ArtifactExists(d)
       THEN /\ frames[d] # Unset
            /\ Len(frames[d]) >= Len(out_file[d])
            /\ current_output' = frames[d]
            /\ job' = [job EXCEPT ![d] = "COMPLETED_SUCCESS"]
       ELSE /\ UNCHANGED current_output
            /\ job' = [job EXCEPT ![d] = "COMPLETED_FAILURE"]
    /\ frames' = [frames EXCEPT ![d] = Unset]
    /\ UNCHANGED <<cfgVars, frames_buffer, live_overlay, processing_queue,
                   running, current_temp_dir, cap_released, capVars, asmVars,
                   fsVars, cb_success, dispVars>>

\* shutil.rmtree(path, ignore_errors) raises only for a missing path when
\* errors are not ignored.
RmtreeRaises(dsk, d, ignore_errors) == ~ignore_errors /\ d \notin dsk

\* ProcessingDoneRmtree that deletes only on success.
ProcessingDoneRmtree_OnlyOnSuccess(d) ==
    /\ job[d] \in {"COMPLETED_SUCCESS", "COMPLETED_FAILURE"}
    /\ job' = [job EXCEPT ![d] = "RELEASED"]
    /\ IF job[d] = "COMPLETED_SUCCESS"
       THEN /\ disk' = disk \ {d}
            /\ input_file' = [input_file EXCEPT ![d] = NoFile]
            /\ out_file' = [out_file EXCEPT ![d] = NoFile]
       ELSE UNCHANGED <<disk, input_file, out_file>>
    /\ UNCHANGED <<cfgVars, frames_buffer, live_overlay, processing_queue,
                   current_output, running, current_temp_dir, cap_released,
                   capVars, asmVars, next_dir, cb_success, frames, dispVars>>

\* line 107: shutil.rmtree(temp_dir, ignore_errors=True)
ProcessingDoneRmtree(d) ==
    /\ job[d] \in {"COMPLETED_SUCCESS", "COMPLETED_FAILURE"}
    /\ IF RmtreeRaises(disk, d, TRUE)
       THEN /\ job' = [job EXCEPT ![d] = "RAISED"]
            /\ UNCHANGED <<disk, input_file, out_file>>
       ELSE /\ job' = [job EXCEPT ![d] = "RELEASED"]
            /\ disk' = disk \ {d}
            /\ input_file' = [input_file EXCEPT ![d] = NoFile]
            /\ out_file' = [out_file EXCEPT ![d] = NoFile]
    /\ UNCHANGED <<cfgVars, frames_buffer, live_overlay, processing_queue,
                   current_output, running, current_temp_dir, cap_released,
                   capVars, asmVars, next_dir, cb_success, frames, dispVars>>

(***************************************************************************)
(* Display loop on the main thread: _display_loop.                         *)
(***************************************************************************)
\* line 121: while self.running
DisplayLoop ==
    /\ pc_disp = "loop"
    /\ pc_disp' = IF running THEN "check" ELSE "release"
    /\ UNCHANGED <<cfgVars, frames_buffer, live_overlay, processing_queue,
                   current_output, running, current_temp_dir, cap_released,
                   capVars, asmVars, fsVars, jobVars, now, current_frame_idx,
                   processed_frame, live_frame>>

\* line 132: if self.current_output is not None
DisplayCheck ==
    /\ pc_disp = "check"
    /\ pc_disp' = IF current_output # None THEN "mod" ELSE "key"
    /\ UNCHANGED <<cfgVars, frames_buffer, live_overlay, processing_queue,
                   current_output, running, current_temp_dir, cap_released,
                   capVars, asmVars, fsVars, jobVars, now, current_frame_idx,
                   processed_frame, live_frame>>

\* DisplayMod without the modulo: the frame clock itself, clamped by
\* DisplayMin.
DisplayMod_NoModulo(t) ==
    /\ pc_disp = "mod"
    /\ now' = t
    /\ pc_disp' = "min"
    /\ current_frame_idx' = FrameClock(t)
    /\ UNCHANGED <<cfgVars, frames_buffer, live_overlay, processing_queue,
                   current_output, running, current_temp_dir, cap_released,
                   capVars, asmVars, fsVars, jobVars, processed_frame,
                   live_frame>>

\* line 133, first operand of min: int(time.time() * self.target_fps) %
\* len(self.current_output), at clock reading t; % 0 raises
\* ZeroDivisionError, which ends the main thread.
DisplayMod(t) ==
    /\ pc_disp = "mod"
    /\ now' = t
    /\ IF Len(current_output) = 0
       THEN /\ pc_disp' = "crashed"
            /\ UNCHANGED current_frame_idx
       ELSE /\ pc_disp' = "min"
            /\ current_frame_idx' = FrameClock(t) % Len(current_output)
    /\ UNCHANGED <<cfgVars, frames_buffer, live_overlay, processing_queue,
                   current_output, running, current_temp_dir, cap_released,
                   capVars, asmVars, fsVars, jobVars, processed_frame,
                   live_frame>>

\* line 133, second operand and min: min(..., len(self.current_output) - 1)
DisplayMin ==
    /\ pc_disp = "min"
    /\ current_frame_idx' = Min(current_frame_idx, Len(current_output) - 1)
    /\ pc_disp' = "index"
    /\ UNCHANGED <<cfgVars, frames_buffer, live_overlay, processing_queue,
                   current_output, running, current_temp_dir, cap_released,
                   capVars, asmVars, fsVars, jobVars, now, processed_frame,
                   live_frame>>

\* line 134: processed_frame = self.current_output[current_frame_idx]; an
\* index out of range raises IndexError, which ends the main thread.
DisplayIndex ==
    /\ pc_disp = "index"
    /\ IF PyIndexOk(current_output, current_frame_idx)
       THEN /\ processed_frame' = PyIndex(current_output, current_frame_idx)
            /\ pc_disp' = "live"
       ELSE /\ pc_disp' = "crashed"
            /\ UNCHANGED processed_frame
    /\ UNCHANGED <<cfgVars, frames_buffer, live_overlay, processing_queue,
                   current_output, running, current_temp_dir, cap_released,
                   capVars, asmVars, fsVars, jobVars, now, current_frame_idx,
                   live_frame>>

\* line 140, the condition: ... if self.frames_buffer else np.zeros_like(...)
DisplayLive ==
    /\ pc_disp = "live"
    /\ pc_disp' = IF frames_buffer # <<>> THEN "live_idx" ELSE "key"
    /\ UNCHANGED <<cfgVars, frames_buffer, live_overlay, processing_queue,
                   current_output, running, current_temp_dir, cap_released,
                   capVars, asmVars, fsVars, jobVars, now, current_frame_idx,
                   processed_frame, live_frame>>

\* line 140, the value: self.frames_buffer[-1]
DisplayLiveIdx ==
    /\ pc_disp = "live_idx"
    /\ IF PyIndexOk(frames_buffer, -1)
       THEN /\ live_frame' = PyIndex(frames_buffer, -1)
            /\ pc_disp' = "key"
       ELSE /\ pc_disp' = "crashed"
            /\ UNCHANGED live_frame
    /\ UNCHANGED <<cfgVars, frames_buffer, live_overlay, processing_queue,
                   current_output, running, current_temp_dir, cap_released,
                   capVars, asmVars, fsVars, jobVars, now, current_frame_idx,
                   processed_frame>>

\* lines 144-149: show the composite, then
\* if cv2.waitKey(1) & 0xFF == ord('q'): self.running = False; break
\* The locals of the iteration are dead from here on and are cleared.
DisplayKey ==
    /\ pc_disp = "key"
    /\ \E q \in BOOLEAN :
          /\ running' = IF q THEN FALSE ELSE running
          /\ pc_disp' = IF q THEN "release" ELSE "loop"
    /\ now' = -1
    /\ current_frame_idx' = -1
    /\ processed_frame' = 0
    /\ live_frame' = 0
    /\ UNCHANGED <<cfgVars, frames_buffer, live_overlay, processing_queue,
                   current_output, current_temp_dir, cap_released, capVars,
                   asmVars, fsVars, jobVars>>

\* lines 151-152: self.cap.release(); cv2.destroyAllWindows()
DisplayRelease ==
    /\ pc_disp = "release"
    /\ cap_released' = TRUE
    /\ pc_disp' = "cleanup"
    /\ UNCHANGED <<cfgVars, frames_buffer, live_overlay, processing_queue,
                   current_output, running, current_temp_dir, capVars,
                   asmVars, fsVars, jobVars, now, current_frame_idx,
                   processed_frame, live_frame>>

\* lines 153-154: if self.current_temp_dir and os.path.exists(...):
\*                    shutil.rmtree(self.current_temp_dir)
\* after which start() returns and the process exits.
DisplayCleanup ==
    /\ pc_disp = "cleanup"
    /\ IF current_temp_dir # 0 /\ current_temp_dir \in disk
       THEN /\ disk' = disk \ {current_temp_dir}
            /\ input_file' = [input_file EXCEPT ![current_temp_dir] = NoFile]
            /\ out_file' = [out_file EXCEPT ![current_temp_dir] = NoFile]
       ELSE UNCHANGED <<disk, input_file, out_file>>
    /\ pc_disp' = "done"
    /\ UNCHANGED <<cfgVars, frames_buffer, live_overlay, processing_queue,
                   current_output, running, current_temp_dir, cap_released,
                   capVars, asmVars, next_dir, jobVars, now,
                   current_frame_idx, processed_frame, live_frame>>

(***************************************************************************)
(* Specifications.                                                         *)
(***************************************************************************)
\* Clock readings of the pipeline runs: 0.0 s and 0.5 s.
PipelineTicks == {0, HalfSecond}

Capture == CaptureLoop \/ CaptureRead \/ CaptureAppend \/ CaptureEvict

Assembler ==
    \/ AsmLoop \/ AsmGuard \/ AsmSlice \/ AsmMkdtemp
    \/ AsmWrite \/ AsmMakedirs \/ AsmPut \/ AsmSubmit

Completion ==
    \E d \in Dirs :
        \/ ServiceFinish(d) \/ ProcessingDoneOpen(d) \/ LoadOutputVideoRead(d)
        \/ ProcessingDoneLoad(d) \/ ProcessingDoneRmtree(d)

Display(ticks) ==
    \/ DisplayLoop \/ DisplayCheck \/ (\E t \in ticks : DisplayMod(t))
    \/ DisplayMin \/ DisplayIndex \/ DisplayLive \/ DisplayLiveIdx
    \/ DisplayKey \/ DisplayRelease \/ DisplayCleanup

Next == Capture \/ Assembler \/ Completion \/ Display(PipelineTicks)

Spec == Init /\ [][Next]_vars

\* The inference service eventually signals completion and the callback's
\* thread is scheduled; checked for the configurations with a short buffer.
FairSpec ==
    /\ InitWith(ShortConfigs)
    /\ [][Next]_vars
    /\ \A d \in Dirs :
          /\ WF_vars(ServiceFinish(d))
          /\ WF_vars(ProcessingDoneOpen(d))
          /\ WF_vars(LoadOutputVideoRead(d))
          /\ WF_vars(ProcessingDoneLoad(d))
          /\ WF_vars(ProcessingDoneRmtree(d))

\* All threads are scheduled: FairSpec with weak fairness of the capture,
\* assembler and display threads as well.
LiveSpec ==
    /\ FairSpec
    /\ WF_vars(Capture)
    /\ WF_vars(Assembler)
    /\ WF_vars(Display(PipelineTicks))

(***************************************************************************)
(* Properties.                                                             *)
(***************************************************************************)
\* Clip Jobs handed to process_video whose completion has not been signalled.
Submitted == {d \in Dirs : job[d] = "SUBMITTED"}

\* C1: at most one Clip Job is in the SUBMITTED state at any instant, for
\* every interleaving of assembler ticks and completions.
C1_AtMostOneSubmitted == Cardinality(Submitted) <= 1

\* C1 witness: a job is in flight while the assembler, in a later tick, is
\* at its slot check with enough frames for another clip.
C1_Witness ==
    /\ Submitted # {}
    /\ pc_asm = "guard"
    /\ Len(frames_buffer) >= ClipLen

\* C2 (as claimed): once the completion handler of a job has run, the
\* Pending Submission Slot is empty again.
C2_SlotEmptyAfterCompletion ==
    \A d \in Dirs : job[d] = "RELEASED" => processing_queue = <<>>

\* Number of the frame appended last.
Appended == IF pc_cap = "append" THEN nframes - 1 ELSE nframes

\* The buffer holds the most recently appended frames, contiguous and in
\* capture order.
RecentWindow ==
    \A i \in 1..Len(frames_buffer) :
        frames_buffer[i] = Appended - Len(frames_buffer) + i

\* C3 (as claimed): in every state the buffer holds at most
\* target_fps * (clip_duration + 1) frames, and they are the most recently
\* appended frames, contiguous and in capture order.
C3_NeverAboveCapacity ==
    /\ Len(frames_buffer) <= BufferCapacity
    /\ RecentWindow

\* C3 (amended): the buffer holds at most capacity + 1 frames, and at most
\* capacity frames except between an append and the eviction that follows
\* it; it always holds the most recently appended frames, contiguous and in
\* capture order.
C3_CapacityPlusOne ==
    /\ Len(frames_buffer) <= BufferCapacity + 1
    /\ pc_cap # "evict" => Len(frames_buffer) <= BufferCapacity
    /\ RecentWindow

\* C3 witness: a full buffer after the oldest frame has been evicted.
C3_Witness ==
    /\ pc_cap = "loop"
    /\ Len(frames_buffer) = BufferCapacity
    /\ frames_buffer[1] > 1

\* A state after the first completion has promoted a result of 1 to
\* CursorMaxLen frames: the clip's frames are in the buffer, its workspace
\* is released, and the three threads are at the head of their loops.
CursorInit ==
    /\ \E c \in Configs : target_fps = c[1] /\ clip_duration = c[2]
    /\ frames_buffer = [i \in 1..ClipLen |-> i]
    /\ live_overlay = ClipLen
    /\ processing_queue = <<1>>
    /\ \E n \in 1..CursorMaxLen : current_output = Artifact(1, n)
    /\ running = TRUE
    /\ current_temp_dir = 0
    /\ cap_released = FALSE
    /\ nframes = ClipLen
    /\ pc_cap = "loop"
    /\ ret = (ClipLen > 0)
    /\ pc_asm = "loop"
    /\ clip_frames = <<>>
    /\ temp_dir = 0
    /\ next_dir = 2
    /\ disk = {}
    /\ input_file = [d \in Dirs |-> NoFile]
    /\ out_file = [d \in Dirs |-> NoFile]
    /\ job = [d \in Dirs |-> IF d = 1 THEN "RELEASED" ELSE "NONE"]
    /\ cb_success = [d \in Dirs |-> d = 1]
    /\ frames = [d \in Dirs |-> Unset]
    /\ pc_disp = "loop"
    /\ now = -1
    /\ current_frame_idx = -1
    /\ processed_frame = 0
    /\ live_frame = 0

\* The display loop alone, reading the clock anywhere in 0..MaxTick.
CursorNext == Display(0..MaxTick)

CursorSpec == CursorInit /\ [][CursorNext]_vars

\* C4: under FairSpec every Clip Job that reaches SUBMITTED eventually
\* reaches RELEASED; a RELEASED job's scratch workspace is not on disk; and
\* the deletion of line 107 never raises.
C4_SubmittedLeadsToReleased ==
    /\ \A d \in Dirs : (job[d] = "SUBMITTED") ~> (job[d] = "RELEASED")
    /\ [](\A d \in Dirs : job[d] = "RELEASED" => d \notin disk)
    /\ [](\A d \in Dirs : job[d] # "RAISED")

\* C4 witness: a job that failed has been released and its workspace is gone.
C4_Witness ==
    \E d \in Dirs :
        /\ job[d] = "RELEASED"
        /\ ~cb_success[d]
        /\ d \notin disk

\* The callback of job d executes lines 103-106 in this step.
LoadStep(d) == job[d] = "CALLBACK" /\ job'[d] # "CALLBACK"

\* The callback of job d executes line 107 in this step.
RmtreeStep(d) ==
    /\ job[d] \in {"COMPLETED_SUCCESS", "COMPLETED_FAILURE"}
    /\ job'[d] \notin {"COMPLETED_SUCCESS", "COMPLETED_FAILURE"}

\* C5: a successful completion whose artifact exists leaves in the Result
\* Holder exactly the frames of that artifact; a failed completion, or a
\* successful one without artifact, leaves the Result Holder as it was.
C5_ResultHolderAfterCompletion ==
    [][\A d \in Dirs :
          /\ LoadStep(d) =>
                current_output' = IF cb_success[d] /\ out_file[d] # NoFile
                                  THEN out_file[d]
                                  ELSE current_output
          /\ RmtreeStep(d) => current_output' = current_output]_vars

\* C5 witness: the callback of a successful job has promoted its artifact of
\* MaxResultLen frames.
C5_Witness ==
    \E d \in Dirs :
        /\ job[d] = "COMPLETED_SUCCESS"
        /\ current_output = Artifact(d, MaxResultLen)

\* The assembler allocates a scratch workspace (line 62) in this step.
CreateStep == next_dir' # next_dir

\* The assembler's slot-and-length check (line 82) fails in this step on a
\* buffer too short for a clip.
UnderrunTick ==
    /\ pc_asm = "guard"
    /\ pc_asm' # "guard"
    /\ Len(frames_buffer) < ClipLen

\* A Clip Job is created only with the slot empty and at least
\* target_fps * clip_duration frames in the buffer; a tick on a shorter
\* buffer creates nothing and changes nothing but the assembler's position.
CreatedOnlyWhenReady ==
    /\ CreateStep => processing_queue = <<>> /\ Len(frames_buffer) >= ClipLen
    /\ UnderrunTick =>
          /\ pc_asm' = "loop"
          /\ UNCHANGED <<cfgVars, frames_buffer, live_overlay,
                         processing_queue, current_output, running,
                         current_temp_dir, cap_released, capVars, clip_frames,
                         temp_dir, fsVars, jobVars, dispVars>>

\* Scenario 1 of the spec: 30 fps, 1 s clips, 45 frames appended, the
\* assembler at its check with the slot empty.
Scenario1 ==
    /\ target_fps = 30
    /\ clip_duration = 1
    /\ Len(frames_buffer) = 45
    /\ processing_queue = <<>>
    /\ pc_asm = "guard"

\* C6 (as claimed): CreatedOnlyWhenReady, and the tick of scenario 1 (45
\* frames appended at 30 fps) is an underrun that creates no Clip Job.
C6_Scenario1IsUnderrun ==
    [][/\ CreatedOnlyWhenReady
       /\ (Scenario1 /\ pc_asm' # "guard") => pc_asm' = "loop"]_vars

\* C6 (amended): CreatedOnlyWhenReady, and the tick of scenario 1 is no
\* underrun: with 45 >= 30 frames it goes on to extract a clip.
C6_CreatedOnlyWhenReady ==
    [][/\ CreatedOnlyWhenReady
       /\ (Scenario1 /\ pc_asm' # "guard") => pc_asm' = "slice"]_vars

\* C6 witness: in scenario 1 a workspace has been allocated for a clip
\* extracted from the 45-frame buffer.
C6_Witness ==
    /\ target_fps = 30
    /\ clip_duration = 1
    /\ Len(frames_buffer) = 45
    /\ pc_asm = "write"
    /\ job[temp_dir] = "CREATED"
    /\ clip_frames = [i \in 1..30 |-> 15 + i]

\* The assembler extracts the clip (line 59) in this step.
SliceStep == pc_asm = "slice" /\ pc_asm' = "mkdtemp"

\* The clip extracted in this step is the last target_fps * clip_duration
\* frames of the buffer, in capture order.
ClipIsRecentTail ==
    /\ Len(clip_frames') = ClipLen
    /\ \A i \in 1..ClipLen :
          clip_frames'[i] = frames_buffer[Len(frames_buffer) - ClipLen + i]

\* Every clip written to a workspace has target_fps * clip_duration frames.
ClipFilesExact ==
    \A d \in Dirs : input_file[d] # NoFile => Len(input_file[d]) = ClipLen

\* C7 (as claimed): for every configuration, every Clip Job holds exactly
\* target_fps * clip_duration frames, the most recent of the buffer at the
\* moment of extraction, in capture order.
C7_ExactClipEveryConfig ==
    [][/\ SliceStep => ClipIsRecentTail
       /\ ClipFilesExact']_vars

\* C7 (amended): the same for every configuration with
\* target_fps * clip_duration >= 1.
C7_ExactClipPositiveConfig ==
    [][ClipLen >= 1 =>
          /\ SliceStep => ClipIsRecentTail
          /\ ClipFilesExact']_vars

\* C7 witness: a clip extracted while the buffer held more frames than the
\* clip, written to its workspace.
C7_Witness ==
    /\ ClipLen >= 1
    /\ pc_asm = "makedirs"
    /\ input_file[temp_dir] = clip_frames
    /\ Len(clip_frames) = ClipLen
    /\ clip_frames[1] > 1

\* The display loop is about to index the Result Sequence (line 134) with
\* the cursor computed from the clock reading `now`.
CursorComputed == pc_disp = "index" /\ current_output # None

\* floor(t * fps) for the clock reading `now`
Ticks == (now * target_fps) \div TimeRes

\* C8 (as claimed): for L >= 1 the cursor is min(floor(t * fps) mod L, L-1),
\* lies in 0..L-1, and is 0 and 1 where floor(t * fps) is L and L+1.
C8_CursorWrapsToZeroAndOne ==
    CursorComputed =>
        LET L == Len(current_output) IN
        /\ current_frame_idx = Min(Ticks % L, L - 1)
        /\ current_frame_idx \in 0..(L - 1)
        /\ Ticks = L => current_frame_idx = 0
        /\ Ticks = L + 1 => current_frame_idx = 1

\* C8 (amended): the same, except that at floor(t * fps) = L+1 the cursor is
\* (L+1) mod L, which is 1 for L >= 2 and 0 for L = 1.
C8_CursorFormula ==
    CursorComputed =>
        LET L == Len(current_output) IN
        /\ current_frame_idx = Min(Ticks % L, L - 1)
        /\ current_frame_idx \in 0..(L - 1)
        /\ Ticks = L => current_frame_idx = 0
        /\ Ticks = L + 1 => current_frame_idx = IF L = 1 THEN 0 ELSE 1

\* C8 witness: a 3-frame result, the cursor wrapped to 1 at floor(t*fps) = 4.
C8_Witness ==
    /\ CursorComputed
    /\ Len(current_output) = 3
    /\ Ticks = 4
    /\ current_frame_idx = 1

\* The display loop has computed the cursor of a 10-frame result at 30 fps.
Scenario3 ==
    /\ CursorComputed
    /\ target_fps = 30
    /\ Len(current_output) = 10

\* C9 (as claimed): with a 10-frame result at 30 fps the cursor is 0 at
\* t = 0.0 s and 9 at t = 0.5 s.
C9_CursorNineAtHalfSecond ==
    Scenario3 =>
        /\ now = 0 => current_frame_idx = 0
        /\ now = HalfSecond => current_frame_idx = 9

\* C9 (amended): with a 10-frame result at 30 fps the cursor is 0 at
\* t = 0.0 s and 5 (= 15 mod 10) at t = 0.5 s.
C9_CursorFiveAtHalfSecond ==
    Scenario3 =>
        /\ now = 0 => current_frame_idx = 0
        /\ now = HalfSecond => current_frame_idx = 5

\* C9 witness: the cursor of the 10-frame result at t = 0.5 s.
C9_Witness ==
    /\ Scenario3
    /\ now = HalfSecond
    /\ current_frame_idx = 5

\* C10 (as claimed): a failed cap.read() makes the capture stage clear the
\* running flag and leave its loop.
C10_ReadFailureSignalsStop ==
    [][(pc_cap = "read" /\ pc_cap' # "read" /\ ~ret') =>
          ~running' /\ pc_cap' = "exit"]_vars

\* Materializing the clip fails in this step: the write of lines 63-78 or
\* the makedirs of lines 84-85 does not go on to the next statement.
EncodeFailureStep ==
    \/ pc_asm = "write" /\ pc_asm' \notin {"write", "makedirs"}
    \/ pc_asm = "makedirs" /\ pc_asm' \notin {"makedirs", "put"}

\* C11 (as claimed): when materializing a clip fails, the workspace
\* allocated for the tick is deleted, the slot stays empty and the assembler
\* goes back to its loop for a later tick.
C11_EncodeFailureCleansUp ==
    [][EncodeFailureStep =>
          /\ temp_dir \notin disk'
          /\ processing_queue' = <<>>
          /\ pc_asm' = "loop"]_vars

\* The capture thread appends a frame in this step.
AppendStep == Len(frames_buffer') > Len(frames_buffer)

\* C12 (as claimed): once the stop flag is set the assembler allocates no
\* workspace, the capture thread appends no frame, and the render loop has
\* left its loop.
C12_NothingAfterStop ==
    [][~running =>
          /\ ~CreateStep
          /\ ~AppendStep
          /\ pc_disp \in {"release", "cleanup", "done"}]_vars

\* C12 (amended): once the stop flag is set no stage starts another loop
\* iteration: a thread at its loop head leaves the loop, a capture thread
\* that is not between its loop check and its append appends no frame, an
\* assembler that is not between its loop check and mkdtemp allocates no
\* workspace, and the render loop has left its loop.
C12_NoNewIterationAfterStop ==
    [][~running =>
          /\ (pc_cap = "loop" /\ pc_cap' # "loop") => pc_cap' = "exit"
          /\ (pc_asm = "loop" /\ pc_asm' # "loop") => pc_asm' = "exit"
          /\ pc_cap \notin {"read", "append"} => ~AppendStep
          /\ pc_asm \notin {"guard", "slice", "mkdtemp"} => ~CreateStep
          /\ pc_disp \in {"release", "cleanup", "done"}]_vars

\* C12 witness: after a stop the capture and assembler threads have left
\* their loops and the main thread has returned.
C12_Witness ==
    /\ ~running
    /\ pc_cap = "exit"
    /\ pc_asm = "exit"
    /\ pc_disp = "done"

\* Jobs whose completion or callback is still outstanding.
InFlight ==
    {d \in Dirs : job[d] \in {"SUBMITTED", "CALLBACK", "COMPLETED_SUCCESS",
                              "COMPLETED_FAILURE"}}

\* The main thread has returned from start() and no callback is outstanding.
ShutDown == pc_disp = "done" /\ InFlight = {}

\* C13 (as claimed, for runs without an encode failure): once the program
\* has shut down after a stop, no scratch workspace it created exists.
C13_NoWorkspaceAfterShutdown ==
    (ShutDown /\ ~running /\ pc_asm # "crashed") => disk = {}

\* C14: at most one scratch workspace exists on disk in every state.
C14_AtMostOneWorkspace == Cardinality(disk) <= 1

\* C14 witness: a workspace is left behind by an encode failure, after a
\* stop.
C14_Witness ==
    /\ Cardinality(disk) = 1
    /\ pc_asm = "crashed"
    /\ ~running

\* The elements of a sequence.
Range(seq) == {seq[i] : i \in 1..Len(seq)}

\* The callback of job d assigns the Result Holder (line 106) in this step.
AssignStep(d) == job[d] = "CALLBACK" /\ job'[d] = "COMPLETED_SUCCESS"

\* C15: the Result Holder is None until it is replaced, it changes only by
\* the assignment of line 106, which puts all frames of the artifact in it
\* at once, and the frame the display loop takes is one of the held
\* sequence.
C15_OnlyCompleteResults ==
    /\ [][current_output' # current_output =>
             \E d \in Dirs :
                 /\ AssignStep(d)
                 /\ current_output' = LoadOutputVideo(out_file[d])]_vars
    /\ [][(pc_disp = "index" /\ pc_disp' = "live") =>
             processed_frame' \in Range(current_output)]_vars
    /\ []((\A d \in Dirs : job[d] \notin {"COMPLETED_SUCCESS", "RELEASED"})
              => current_output = None)

\* C15 witness: the display loop is about to read the Result Holder, which
\* is still None, while the callback has decoded one frame of two.
C15_Witness ==
    /\ pc_disp = "check"
    /\ current_output = None
    /\ \E d \in Dirs :
          /\ job[d] = "CALLBACK"
          /\ frames[d] # Unset
          /\ Len(frames[d]) = 1
          /\ Len(out_file[d]) = 2

\* A step of the assembler, of a completion callback or of the display loop.
OtherStageStep ==
    \/ asmVars' # asmVars
    \/ jobVars' # jobVars
    \/ dispVars' # dispVars

\* C16: an assembler tick, a completion and a display tick leave the
\* Rolling Capture Buffer unchanged; it changes only in the capture
\* thread's append and eviction.
C16_BufferOnlyChangedByCapture ==
    [][/\ OtherStageStep => frames_buffer' = frames_buffer
       /\ frames_buffer' # frames_buffer =>
             pc_cap \in {"append", "evict"} /\ pc_cap' # pc_cap]_vars

\* C16 witness: a clip has been extracted, completed and displayed, and the
\* buffer still holds the clip's frames and more.
C16_Witness ==
    /\ ClipLen >= 1
    /\ pc_disp = "key"
    /\ processed_frame # 0
    /\ live_frame = frames_buffer[Len(frames_buffer)]
    /\ Len(frames_buffer) > ClipLen
    /\ frames_buffer[1] = 1
    /\ \E d \in Dirs : job[d] = "RELEASED"

\* Clip Jobs created so far.
Created == {d \in Dirs : job[d] # "NONE"}

\* C17 (as claimed): under LiveSpec, after a completion and with enough
\* frames in the buffer the assembler eventually creates a fresh Clip Job,
\* unless the system stops running.
C17_FreshJobAfterCompletion ==
    ((\E d \in Dirs : job[d] = "RELEASED") /\ Len(frames_buffer) >= ClipLen) ~>
        \/ Cardinality(Created) >= 2
        \/ ~running
        \/ ~ProcessAlive

\* The display loop reads self.frames_buffer[-1] (line 140) in this step.
LiveReadStep == pc_disp = "live_idx" /\ pc_disp' # "live_idx"

C19_DisplayNeverFails == pc_disp # "crashed"

\* The capture thread executes cap.read() (line 45) in this step.
ReadStep == pc_cap = "read" /\ pc_cap' # "read"

\* C20 (as claimed): no cap.read() happens after cap.release().
C20_NoReadAfterRelease == [][cap_released => ~ReadStep]_vars

====
